---- MODULE Spec2Model ----
(***************************************************************************)
(* RoomManager (src/app/roomManager/index.js): a registry of Socket.io     *)
(* rooms kept in Redis hashes and shared by the workers of a cluster.      *)
(* Every worker owns one connection; the Redis server executes one command *)
(* at a time, so every step of the model is one store command together     *)
(* with the local code that follows its reply up to the next await.        *)
(***************************************************************************)
EXTENDS Integers, Sequences, FiniteSets, TLC

\* ---------------------------------------------------------------- bounds
MaxCalls == 2        \* calls issued in one behaviour (registry calls, raw writes, restarts)
MaxFaults == 1       \* store commands that fail in one behaviour
MaxRawWrites == 1    \* writes made by a client that bypasses the registry
NumDbs == 2          \* logical databases of the Redis instance: 0 .. NumDbs-1

\* ------------------------------------------------------------ constants
AppDbId == 1         \* new RoomManager(1)

Workers == {"w1", "w2"}
Namespaces == {"n1", "n2"}
Rooms == {"r1", "r2"}
Slots == {<<"n1", "r1">>, <<"n1", "r2">>, <<"n2", "r1">>}   \* the (namespace, room) pairs callers name
Clients == {"c1", "c2"}

Dbs == 0 .. (NumDbs - 1)
BadDbId == NumDbs                 \* an index the server rejects ("DB index is out of range")
DbIds == {AppDbId, BadDbId}       \* the dbId arguments given to the constructor
DefaultDb == 0                    \* the database of a fresh connection

\* ------------------------------------------------------- values and JSON
Null == <<>>                      \* JavaScript null: the empty option
Some(x) == <<x>>

EmptyHash == [f \in {} |-> <<>>]

\* '{}}}!' : the malformed string of the tests, as a sequence of tokens
WrongJson == <<"{", "}", "}", "}", "!">>

\* faulty variant: {clients: null, active: true}
M_NewRoomNullClients == [clients |-> <<"null">>, active |-> TRUE]

\* {clients: new Array, active: true}
NewRoom == [clients |-> <<>>, active |-> TRUE]

\* JSON.stringify(roomObj): the stored string, as a sequence of tokens
JSONstringify(roomObj) ==
    <<"{", "clients">> \o roomObj.clients
        \o <<"active", IF roomObj.active THEN "true" ELSE "false", "}">>

\* JSON.parse(str) does not throw
Parseable(str) ==
    /\ Len(str) >= 5
    /\ str[1] = "{"
    /\ str[2] = "clients"
    /\ str[Len(str) - 2] = "active"
    /\ str[Len(str) - 1] \in {"true", "false"}
    /\ str[Len(str)] = "}"
    /\ \A i \in 3 .. (Len(str) - 3) : str[i] \in Clients

\* faulty variant: the parsed room is always active, the stored flag is not read
M_JSONparseActive(str) ==
    [clients |-> SubSeq(str, 3, Len(str) - 3), active |-> TRUE]

\* JSON.parse(str), for a parseable str
JSONparse(str) ==
    [clients |-> SubSeq(str, 3, Len(str) - 3), active |-> (str[Len(str) - 1] = "true")]

\* faulty variant: lastIndexOf, the last occurrence is the one found
M_LastIndexOf(clients, clientId) ==
    IF \E i \in 1 .. Len(clients) : clients[i] = clientId
    THEN CHOOSE i \in 1 .. Len(clients) :
            /\ clients[i] = clientId
            /\ \A j \in (i + 1) .. Len(clients) : clients[j] # clientId
    ELSE 0

\* room.clients.indexOf(clientId), 1-based; 0 when absent (JavaScript: -1)
IndexOf(clients, clientId) ==
    IF \E i \in 1 .. Len(clients) : clients[i] = clientId
    THEN CHOOSE i \in 1 .. Len(clients) :
            /\ clients[i] = clientId
            /\ \A j \in 1 .. (i - 1) : clients[j] # clientId
    ELSE 0

\* room.clients.splice(index, 1)
Splice(clients, index) ==
    SubSeq(clients, 1, index - 1) \o SubSeq(clients, index + 1, Len(clients))

\* ---------------------------------------------------------------- state
VARIABLES
    store,      \* store[db][namespace]: the Redis hash, room name -> stored string
    sel,        \* sel[w]: the database selected on w's connection
    dbId,       \* dbId[w]: this._dbId
    pc,         \* pc[w]: "idle", the await at which w's call is suspended, or "done"
    op,         \* op[w]: the call w runs or has just completed: name, db, ns, room, client
    loc,        \* loc[w]: the local variable `room` of the running call
    todo,       \* todo[w]: the room names removeClientFromNamespace has still to visit
    res,        \* res[w]: how w's completed call ended, until its caller takes the result
    restarted,  \* restarted[w]: w's process is not the first one of this worker
    calls,      \* calls issued so far
    faults,     \* store commands that failed so far
    rawWrites,  \* raw writes so far
    snap,       \* snap[w]: what the call's target held when its first command ran
    raced,      \* raced[w]: somebody else wrote the call's target while the call ran
    touched,    \* touched[w]: somebody else wrote the call's target after the call ended
    faulted,    \* faulted[w]: a store command of the call failed
    clobber,    \* clobber[w]: the call's creation write landed on a room that existed
    overlap,    \* overlap[w]: another worker wrote to the store while the call ran
    written,    \* written[db][ns][r]: the room object the last _saveRoom put there, if any
    redisClient, \* redisClient[w]: this._client, the connection of w's registry
    iter,       \* the asyncForEach call under study
    sched       \* the scheduler of the master process

vars == <<store, sel, dbId, pc, op, loc, todo, res, restarted, calls, faults, rawWrites,
          snap, raced, touched, faulted, clobber, overlap, written, redisClient, iter, sched>>

\* the registry and its store
registry == <<store, sel, dbId, pc, op, loc, todo, res, restarted, calls, faults, rawWrites,
              snap, raced, touched, faulted, clobber, overlap, written>>

\* what the registry calls leave alone
aside == <<redisClient, iter, sched>>

\* ------------------------------------------------------ results of calls
NoResult == [kind |-> "none", val |-> <<>>]
Undefined == [kind |-> "undefined", val |-> <<>>]
Bool(b) == [kind |-> "bool", val |-> <<b>>]
Value(v) == [kind |-> "value", val |-> v]
Rejected(why) == [kind |-> "reject", val |-> <<why>>]

NoOp == [name |-> "none", db |-> -1, ns |-> "", room |-> "", client |-> ""]
Call(name, db, ns, room, client) ==
    [name |-> name, db |-> db, ns |-> ns, room |-> room, client |-> client]

\* ------------------------------------------------------- store commands
\* the value of field r of a hash, null for a missing field
FieldOf(hash, r) == IF r \in DOMAIN hash THEN Some(hash[r]) ELSE Null

\* hget(namespace, roomName): the reply
HGet(db, ns, r) == FieldOf(store[db][ns], r)

\* hgetall(namespace): the reply, null for a missing key
HGetAll(db, ns) ==
    IF DOMAIN store[db][ns] = {} THEN Null ELSE Some(store[db][ns])

\* hset(namespace, roomName, str): the store afterwards
HSet(db, ns, r, str) ==
    [store EXCEPT ![db][ns] =
        [f \in (DOMAIN @) \cup {r} |-> IF f = r THEN str ELSE @[f]]]

\* faulty variant: the write replaces the namespace's hash instead of setting one field
M_SaveRoomWholeHash(db, ns, r, roomObj) ==
    [store EXCEPT ![db][ns] = (r :> JSONstringify(roomObj))]

\* _saveRoom(namespace, roomName, roomObj): the store afterwards
SaveRoom(db, ns, r, roomObj) == HSet(db, ns, r, JSONstringify(roomObj))

\* faulty variant: init selects the database and does not flush it
M_FlushDbNothing(db) == store

\* flushdb(): the store afterwards
FlushDb(db) == [store EXCEPT ![db] = [ns \in Namespaces |-> EmptyHash]]

\* select(dbId) succeeds
SelectOk(id) == id \in Dbs

\* the outcomes a store command can have: TRUE it is executed, FALSE it fails
Outcomes == IF faults < MaxFaults THEN {TRUE, FALSE} ELSE {TRUE}

\* faulty variant: init lets the store error through like the other methods
M_OnStoreErrorRethrow(name) == Rejected("store")

\* faulty variant: the methods catch the store error and complete normally
M_OnStoreErrorSwallow(name) ==
    IF name = "init" THEN Bool(FALSE) ELSE Undefined

\* how a call ends when one of its store commands fails: init catches the
\* error and returns false, every other method lets the rejection through
OnStoreError(name) ==
    IF name = "init" THEN Bool(FALSE) ELSE Rejected("store")

\* JSON.stringify({clients, active}): what _saveRoom stores for such a room
Stored(clients, active) == JSONstringify([clients |-> clients, active |-> active])

\* keyspace contents that earlier registry calls can have left in the store
SeedEmpty == [ns \in Namespaces |-> EmptyHash]

SeedRich ==
    [ns \in Namespaces |->
        IF ns = "n1"
        THEN ("r1" :> Stored(<<"c1", "c2", "c1">>, FALSE)) @@ ("r2" :> Stored(<<"c1">>, TRUE))
        ELSE ("r1" :> Stored(<<"c1">>, FALSE))]

SeedSparse ==
    [ns \in Namespaces |->
        IF ns = "n1"
        THEN ("r1" :> Stored(<<>>, TRUE)) @@ ("r2" :> Stored(<<"c2">>, FALSE))
        ELSE EmptyHash]

Seeds == {SeedEmpty, SeedRich, SeedSparse}

\* ------------------------------------------------------------ pure parts
\* faulty variant: a malformed value is answered with a fresh room
M_GetRoomResultDefault(reply) ==
    IF reply = Null THEN Null
    ELSE IF Parseable(reply[1]) THEN Some(JSONparse(reply[1]))
    ELSE Some(NewRoom)

\* getRoom after the reply of hget
GetRoomResult(reply) ==
    IF reply = Null THEN Null
    ELSE IF Parseable(reply[1]) THEN Some(JSONparse(reply[1]))
    ELSE Null

\* faulty variant: a malformed entry is skipped instead of failing the whole read
M_GetRoomsResultSkip(reply) ==
    IF reply = Null THEN Null
    ELSE Some([r \in {f \in DOMAIN reply[1] : Parseable(reply[1][f])} |->
                    JSONparse(reply[1][r])])

\* getRooms after the reply of hgetall
GetRoomsResult(reply) ==
    IF reply = Null THEN Null
    ELSE IF \E r \in DOMAIN reply[1] : ~Parseable(reply[1][r]) THEN Null
    ELSE Some([r \in DOMAIN reply[1] |-> JSONparse(reply[1][r])])

\* faulty variant: roomExists asks whether the field is there (hexists), parseable or not
M_RoomExistsResultHexists(reply) == reply # Null

\* roomExists after the reply of hget
RoomExistsResult(reply) == GetRoomResult(reply) # Null

\* faulty variant: the flag is set on a fresh room object, the clients are dropped
M_SetActiveFresh(room, flag) == [clients |-> <<>>, active |-> flag]

\* room.active = true / room.active = false
SetActive(room, flag) == [room EXCEPT !.active = flag]

\* faulty variant: a client that is already in the list is not appended again
M_PushUnique(room, clientId) ==
    [room EXCEPT !.clients =
        IF \E i \in 1 .. Len(@) : @[i] = clientId THEN @ ELSE Append(@, clientId)]

\* faulty variant: the client is put in front (unshift) instead of appended
M_PushFront(room, clientId) == [room EXCEPT !.clients = <<clientId>> \o @]

\* room.clients.push(clientId)
Push(room, clientId) == [room EXCEPT !.clients = Append(@, clientId)]

\* faulty variant: every occurrence of the client is taken out
M_RemoveEvery(room, clientId) ==
    [room EXCEPT !.clients = SelectSeq(@, LAMBDA x : x # clientId)]

\* room.clients.splice(index, 1), index being indexOf(clientId)
Remove(room, clientId) ==
    [room EXCEPT !.clients = Splice(@, IndexOf(@, clientId))]

\* the orders in which for-in can visit the keys of the object hgetall returned
Orders(keys) ==
    {s \in [1 .. Cardinality(keys) -> keys] :
        \A i, j \in 1 .. Cardinality(keys) : s[i] = s[j] => i = j}

\* ------------------------------------------------------------ bookkeeping
NoWrite == [db |-> -1, ns |-> "", room |-> ""]
Write(db, ns, r) == [db |-> db, ns |-> ns, room |-> r]

\* the write W falls into the target of v's call ("*" stands for every name)
Hits(W, v) ==
    /\ W.db >= 0
    /\ op[v].db = W.db
    /\ (W.ns = "*" \/ op[v].ns = "*" \/ W.ns = op[v].ns)
    /\ (W.room = "*" \/ op[v].room = "*" \/ W.room = op[v].room)

\* what the target of call o holds now
Snapshot(o) ==
    IF o.db \notin Dbs THEN <<>>
    ELSE IF o.ns = "*" THEN Some(store[o.db])
    ELSE IF o.room = "*" THEN HGetAll(o.db, o.ns)
    ELSE HGet(o.db, o.ns, o.room)

\* the room object the step of w at a _saveRoom passes to it
SavedObj(w) == IF pc[w] = "addRoom_saveRoom" THEN NewRoom ELSE loc[w][1]

\* no slot holds an object written by _saveRoom
NothingWritten == [ns \in Namespaces |-> [r \in Rooms |-> Null]]

\* the marks a write W of somebody other than v leaves on v's call
RacedBy(W, v) == raced[v] \/ (pc[v] \notin {"idle", "done"} /\ Hits(W, v))
TouchedBy(W, v) == touched[v] \/ (pc[v] = "done" /\ Hits(W, v))

\* history of a step of w; o is the call when the step issues it, NoOp when
\* the step continues a call; W is the write the step makes; ok its outcome;
\* cl: the step is the creation write of addRoom and the room existed
Book(w, o, W, ok, cl) ==
    LET starting == o.name # "none" IN
    /\ calls' = IF starting THEN calls + 1 ELSE calls
    /\ op' = IF starting THEN [op EXCEPT ![w] = o] ELSE op
    /\ snap' = IF starting THEN [snap EXCEPT ![w] = Snapshot(o)] ELSE snap
    /\ faults' = IF ok THEN faults ELSE faults + 1
    /\ faulted' = [faulted EXCEPT ![w] = (IF starting THEN FALSE ELSE @) \/ ~ok]
    /\ clobber' = [clobber EXCEPT ![w] = (IF starting THEN FALSE ELSE @) \/ cl]
    /\ overlap' = [v \in Workers |->
                    IF v = w THEN (IF starting THEN FALSE ELSE overlap[w])
                    ELSE overlap[v] \/ (pc[v] \notin {"idle", "done"} /\ W.db >= 0)]
    /\ raced' = [v \in Workers |->
                    IF v = w THEN (IF starting THEN FALSE ELSE raced[w])
                    ELSE RacedBy(W, v)]
    /\ touched' = [v \in Workers |->
                    IF v = w THEN (IF starting THEN FALSE ELSE touched[w])
                    ELSE TouchedBy(W, v)]
    /\ written' = IF W.db < 0 THEN written
                  ELSE IF W.ns = "*" THEN [written EXCEPT ![W.db] = NothingWritten]
                  ELSE [written EXCEPT ![W.db][W.ns][W.room] = Some(SavedObj(w))]

\* w can issue a call
CanCall(w) == pc[w] = "idle" /\ calls < MaxCalls

\* ----------------------------------------------------------------- Init
\* a connection on which nothing has happened: redis(port, host, options)
NewClient == [connected |-> FALSE, closing |-> FALSE, ends |-> 0, destroys |-> 0]

\* no asyncForEach call
NoIteration == [input |-> [kind |-> "undefined", entries |-> <<>>], position |-> "idle",
                at |-> 0, running |-> 0, log |-> <<>>]

\* the scheduler module before scheduleJob
NoSchedule == [enabled |-> TRUE, currentlyRunning |-> FALSE, inProgress |-> 0,
               ticks |-> 0, started |-> 0, cancelled |-> 0, skipped |-> 0]

\* nothing but the registry is under study
AsideIdle ==
    /\ redisClient = [w \in Workers |-> NewClient]
    /\ iter = NoIteration
    /\ sched = NoSchedule

\* the registries after construction, their connections on database db0
RegistryStart(db0) ==
    /\ \E seed \in Seeds : store = [db \in Dbs |-> seed]
    /\ sel = [w \in Workers |-> db0]
    /\ dbId = [w \in Workers |-> AppDbId]
    /\ pc = [w \in Workers |-> "idle"]
    /\ op = [w \in Workers |-> NoOp]
    /\ loc = [w \in Workers |-> Null]
    /\ todo = [w \in Workers |-> <<>>]
    /\ res = [w \in Workers |-> NoResult]
    /\ restarted = [w \in Workers |-> FALSE]
    /\ calls = 0
    /\ faults = 0
    /\ rawWrites = 0
    /\ snap = [w \in Workers |-> <<>>]
    /\ raced = [w \in Workers |-> FALSE]
    /\ touched = [w \in Workers |-> FALSE]
    /\ faulted = [w \in Workers |-> FALSE]
    /\ clobber = [w \in Workers |-> FALSE]
    /\ overlap = [w \in Workers |-> FALSE]
    /\ written = [db \in Dbs |-> NothingWritten]

Init == RegistryStart(DefaultDb) /\ AsideIdle

\* a step of w: its next position, local room, result and the rooms to visit
Local(w, newpc, newloc, newres, newtodo) ==
    /\ pc' = [pc EXCEPT ![w] = newpc]
    /\ loc' = [loc EXCEPT ![w] = newloc]
    /\ res' = [res EXCEPT ![w] = newres]
    /\ todo' = [todo EXCEPT ![w] = newtodo]

\* the call ends with result r
Return(w, r) == Local(w, "done", Null, r, <<>>)

\* the call goes on at label l with local room newloc
Goto(w, l, newloc) == Local(w, l, newloc, NoResult, todo[w])

\* no store, connection or process change
Same == UNCHANGED <<sel, dbId, restarted, rawWrites, redisClient, iter, sched>>

\* ------------------------------------------------------------------ init
\* faulty variant: the flush is issued whether or not the selection succeeded
M_InitSelectFlushAnyway(w) ==
    /\ CanCall(w)
    /\ \E ok \in Outcomes :
        LET good == ok /\ SelectOk(dbId[w]) IN
        /\ sel' = [sel EXCEPT ![w] = IF good THEN dbId[w] ELSE @]
        /\ Goto(w, "init_flushdb", Null)
        /\ Book(w, Call("init", dbId[w], "*", "*", ""), NoWrite, ok, FALSE)
    /\ UNCHANGED <<store, dbId, restarted, rawWrites, redisClient, iter, sched>>

\* init(): await select(this._dbId)
InitSelect(w) ==
    /\ CanCall(w)
    /\ \E ok \in Outcomes :
        LET good == ok /\ SelectOk(dbId[w]) IN
        /\ sel' = [sel EXCEPT ![w] = IF good THEN dbId[w] ELSE @]
        /\ IF good THEN Goto(w, "init_flushdb", Null)
                   ELSE Return(w, OnStoreError("init"))
        /\ Book(w, Call("init", dbId[w], "*", "*", ""), NoWrite, ok, FALSE)
    /\ UNCHANGED <<store, dbId, restarted, rawWrites, redisClient, iter, sched>>

\* init(): await flushdb(); return true
InitFlushdb(w) ==
    /\ pc[w] = "init_flushdb"
    /\ \E ok \in Outcomes :
        /\ store' = IF ok THEN FlushDb(sel[w]) ELSE store
        /\ Return(w, IF ok THEN Bool(TRUE) ELSE OnStoreError("init"))
        /\ Book(w, NoOp, IF ok THEN Write(sel[w], "*", "*") ELSE NoWrite, ok, FALSE)
    /\ Same

\* ----------------------------------------------------------------- reads
\* getRooms(namespace)
GetRooms(w, ns) ==
    /\ CanCall(w)
    /\ \E ok \in Outcomes :
        /\ Return(w, IF ok THEN Value(GetRoomsResult(HGetAll(sel[w], ns)))
                           ELSE OnStoreError("getRooms"))
        /\ Book(w, Call("getRooms", sel[w], ns, "*", ""), NoWrite, ok, FALSE)
    /\ UNCHANGED store /\ Same

\* faulty variant: getRoom parses outside the try block, a malformed value rejects
M_GetRoomNoCatch(w, ns, r) ==
    /\ CanCall(w)
    /\ \E ok \in Outcomes :
        LET reply == HGet(sel[w], ns, r) IN
        /\ Return(w, IF ~ok THEN OnStoreError("getRoom")
                     ELSE IF reply # Null /\ ~Parseable(reply[1]) THEN Rejected("SyntaxError")
                     ELSE Value(GetRoomResult(reply)))
        /\ Book(w, Call("getRoom", sel[w], ns, r, ""), NoWrite, ok, FALSE)
    /\ UNCHANGED store /\ Same

\* getRoom(namespace, roomName)
GetRoom(w, ns, r) ==
    /\ CanCall(w)
    /\ \E ok \in Outcomes :
        /\ Return(w, IF ok THEN Value(GetRoomResult(HGet(sel[w], ns, r)))
                           ELSE OnStoreError("getRoom"))
        /\ Book(w, Call("getRoom", sel[w], ns, r, ""), NoWrite, ok, FALSE)
    /\ UNCHANGED store /\ Same

\* roomExists(namespace, roomName)
RoomExists(w, ns, r) ==
    /\ CanCall(w)
    /\ \E ok \in Outcomes :
        /\ Return(w, IF ok THEN Bool(RoomExistsResult(HGet(sel[w], ns, r)))
                           ELSE OnStoreError("roomExists"))
        /\ Book(w, Call("roomExists", sel[w], ns, r, ""), NoWrite, ok, FALSE)
    /\ UNCHANGED store /\ Same

\* roomEmpty: !(await this.roomExists(...)) || ...
RoomEmpty(w, ns, r) ==
    /\ CanCall(w)
    /\ \E ok \in Outcomes :
        /\ IF ~ok THEN Return(w, OnStoreError("roomEmpty"))
           ELSE IF ~RoomExistsResult(HGet(sel[w], ns, r)) THEN Return(w, Bool(TRUE))
           ELSE Goto(w, "roomEmpty_getRoom", Null)
        /\ Book(w, Call("roomEmpty", sel[w], ns, r, ""), NoWrite, ok, FALSE)
    /\ UNCHANGED store /\ Same

\* faulty variant: a room that is not active counts as empty
M_RoomEmptyGetRoomInactive(w) ==
    /\ pc[w] = "roomEmpty_getRoom"
    /\ \E ok \in Outcomes :
        LET room == GetRoomResult(HGet(sel[w], op[w].ns, op[w].room)) IN
        /\ IF ~ok THEN Return(w, OnStoreError("roomEmpty"))
           ELSE IF room = Null THEN Return(w, Rejected("TypeError"))
           ELSE Return(w, Bool(Len(room[1].clients) = 0 \/ ~room[1].active))
        /\ Book(w, NoOp, NoWrite, ok, FALSE)
    /\ UNCHANGED store /\ Same

\* roomEmpty: ... || (await this.getRoom(...)).clients.length === 0
RoomEmptyGetRoom(w) ==
    /\ pc[w] = "roomEmpty_getRoom"
    /\ \E ok \in Outcomes :
        LET room == GetRoomResult(HGet(sel[w], op[w].ns, op[w].room)) IN
        /\ IF ~ok THEN Return(w, OnStoreError("roomEmpty"))
           ELSE IF room = Null THEN Return(w, Rejected("TypeError"))
           ELSE Return(w, Bool(Len(room[1].clients) = 0))
        /\ Book(w, NoOp, NoWrite, ok, FALSE)
    /\ UNCHANGED store /\ Same

\* --------------------------------------------------------------- addRoom
\* where addRoom's caller goes on when addRoom has returned
AfterAddRoom(w, created) ==
    IF op[w].name = "addRoom" THEN Return(w, Bool(created))
    ELSE Goto(w, op[w].name \o "_getRoom", Null)

\* faulty variant: addRoom saves the new room without asking whether one exists
M_AddRoomNoCheck(w, ns, r) ==
    /\ CanCall(w)
    /\ \E ok \in Outcomes :
        /\ IF ~ok THEN Return(w, OnStoreError("addRoom"))
           ELSE Goto(w, "addRoom_saveRoom", Null)
        /\ Book(w, Call("addRoom", sel[w], ns, r, ""), NoWrite, ok, FALSE)
    /\ UNCHANGED store /\ Same

\* addRoom: if (await this.roomExists(...)) return false
AddRoom(w, ns, r) ==
    /\ CanCall(w)
    /\ \E ok \in Outcomes :
        /\ IF ~ok THEN Return(w, OnStoreError("addRoom"))
           ELSE IF RoomExistsResult(HGet(sel[w], ns, r)) THEN Return(w, Bool(FALSE))
           ELSE Goto(w, "addRoom_saveRoom", Null)
        /\ Book(w, Call("addRoom", sel[w], ns, r, ""), NoWrite, ok, FALSE)
    /\ UNCHANGED store /\ Same

\* addRoom called by activateRoom / deactivateRoom: its roomExists
AddRoomExists(w) ==
    /\ pc[w] = "addRoom_roomExists"
    /\ \E ok \in Outcomes :
        /\ IF ~ok THEN Return(w, OnStoreError(op[w].name))
           ELSE IF RoomExistsResult(HGet(sel[w], op[w].ns, op[w].room))
                THEN Goto(w, op[w].name \o "_getRoom", Null)
           ELSE Goto(w, "addRoom_saveRoom", Null)
        /\ Book(w, NoOp, NoWrite, ok, FALSE)
    /\ UNCHANGED store /\ Same

\* addRoom: await this._saveRoom(..., {clients: new Array, active: true}); return true
AddRoomSaveRoom(w) ==
    /\ pc[w] = "addRoom_saveRoom"
    /\ \E ok \in Outcomes :
        /\ store' = IF ok THEN SaveRoom(sel[w], op[w].ns, op[w].room, NewRoom) ELSE store
        /\ IF ~ok THEN Return(w, OnStoreError(op[w].name))
           ELSE AfterAddRoom(w, TRUE)
        /\ Book(w, NoOp, IF ok THEN Write(sel[w], op[w].ns, op[w].room) ELSE NoWrite, ok,
                ok /\ RoomExistsResult(HGet(sel[w], op[w].ns, op[w].room)))
    /\ Same

\* ------------------------------------------- activateRoom, deactivateRoom
\* if (!(await this.roomExists(...))) await this.addRoom(...)
SetActiveCall(w, name, ns, r) ==
    /\ CanCall(w)
    /\ \E ok \in Outcomes :
        /\ IF ~ok THEN Return(w, OnStoreError(name))
           ELSE IF RoomExistsResult(HGet(sel[w], ns, r)) THEN Goto(w, name \o "_getRoom", Null)
           ELSE Goto(w, "addRoom_roomExists", Null)
        /\ Book(w, Call(name, sel[w], ns, r, ""), NoWrite, ok, FALSE)
    /\ UNCHANGED store /\ Same

ActivateRoom(w, ns, r) == SetActiveCall(w, "activateRoom", ns, r)

DeactivateRoom(w, ns, r) == SetActiveCall(w, "deactivateRoom", ns, r)

\* let room = await this.getRoom(...); room.active = flag
SetActiveGetRoom(w, name, flag) ==
    /\ pc[w] = name \o "_getRoom"
    /\ \E ok \in Outcomes :
        LET room == GetRoomResult(HGet(sel[w], op[w].ns, op[w].room)) IN
        /\ IF ~ok THEN Return(w, OnStoreError(name))
           ELSE IF room = Null THEN Return(w, Rejected("TypeError"))
           ELSE Goto(w, name \o "_saveRoom", Some(SetActive(room[1], flag)))
        /\ Book(w, NoOp, NoWrite, ok, FALSE)
    /\ UNCHANGED store /\ Same

ActivateRoomGetRoom(w) == SetActiveGetRoom(w, "activateRoom", TRUE)

DeactivateRoomGetRoom(w) == SetActiveGetRoom(w, "deactivateRoom", FALSE)

\* await this._saveRoom(namespace, roomName, room)
SetActiveSaveRoom(w, name) ==
    /\ pc[w] = name \o "_saveRoom"
    /\ \E ok \in Outcomes :
        /\ store' = IF ok THEN SaveRoom(sel[w], op[w].ns, op[w].room, loc[w][1]) ELSE store
        /\ Return(w, IF ok THEN Undefined ELSE OnStoreError(name))
        /\ Book(w, NoOp, IF ok THEN Write(sel[w], op[w].ns, op[w].room) ELSE NoWrite, ok, FALSE)
    /\ Same

ActivateRoomSaveRoom(w) == SetActiveSaveRoom(w, "activateRoom")

DeactivateRoomSaveRoom(w) == SetActiveSaveRoom(w, "deactivateRoom")

\* ------------------------------------------------------------- addClient
\* await this.addRoom(...): its roomExists
AddClient(w, ns, r, c) ==
    /\ CanCall(w)
    /\ \E ok \in Outcomes :
        /\ IF ~ok THEN Return(w, OnStoreError("addClient"))
           ELSE IF RoomExistsResult(HGet(sel[w], ns, r)) THEN Goto(w, "addClient_getRoom", Null)
           ELSE Goto(w, "addRoom_saveRoom", Null)
        /\ Book(w, Call("addClient", sel[w], ns, r, c), NoWrite, ok, FALSE)
    /\ UNCHANGED store /\ Same

\* faulty variant: the client is put into a room object built anew
M_AddClientGetRoomFresh(w) ==
    /\ pc[w] = "addClient_getRoom"
    /\ \E ok \in Outcomes :
        LET room == GetRoomResult(HGet(sel[w], op[w].ns, op[w].room)) IN
        /\ IF ~ok THEN Return(w, OnStoreError("addClient"))
           ELSE IF room = Null THEN Return(w, Rejected("TypeError"))
           ELSE Goto(w, "addClient_saveRoom", Some(Push(NewRoom, op[w].client)))
        /\ Book(w, NoOp, NoWrite, ok, FALSE)
    /\ UNCHANGED store /\ Same

\* let room = await this.getRoom(...); room.clients.push(clientId)
AddClientGetRoom(w) ==
    /\ pc[w] = "addClient_getRoom"
    /\ \E ok \in Outcomes :
        LET room == GetRoomResult(HGet(sel[w], op[w].ns, op[w].room)) IN
        /\ IF ~ok THEN Return(w, OnStoreError("addClient"))
           ELSE IF room = Null THEN Return(w, Rejected("TypeError"))
           ELSE Goto(w, "addClient_saveRoom", Some(Push(room[1], op[w].client)))
        /\ Book(w, NoOp, NoWrite, ok, FALSE)
    /\ UNCHANGED store /\ Same

\* await this._saveRoom(namespace, roomName, room)
AddClientSaveRoom(w) ==
    /\ pc[w] = "addClient_saveRoom"
    /\ \E ok \in Outcomes :
        /\ store' = IF ok THEN SaveRoom(sel[w], op[w].ns, op[w].room, loc[w][1]) ELSE store
        /\ Return(w, IF ok THEN Undefined ELSE OnStoreError("addClient"))
        /\ Book(w, NoOp, IF ok THEN Write(sel[w], op[w].ns, op[w].room) ELSE NoWrite, ok, FALSE)
    /\ Same

\* -------------------------------------------------- removeClientFromRoom
\* if (!(await this.roomExists(...))) return false
RemoveClientFromRoom(w, ns, r, c) ==
    /\ CanCall(w)
    /\ \E ok \in Outcomes :
        /\ IF ~ok THEN Return(w, OnStoreError("removeClientFromRoom"))
           ELSE IF ~RoomExistsResult(HGet(sel[w], ns, r)) THEN Return(w, Bool(FALSE))
           ELSE Goto(w, "removeClientFromRoom_getRoom", Null)
        /\ Book(w, Call("removeClientFromRoom", sel[w], ns, r, c), NoWrite, ok, FALSE)
    /\ UNCHANGED store /\ Same

\* faulty variant: no test of index < 0, and splice(-1, 1) takes the last client away
M_RemoveClientFromRoomGetRoomNoTest(w) ==
    /\ pc[w] = "removeClientFromRoom_getRoom"
    /\ \E ok \in Outcomes :
        LET room == GetRoomResult(HGet(sel[w], op[w].ns, op[w].room)) IN
        /\ IF ~ok THEN Return(w, OnStoreError("removeClientFromRoom"))
           ELSE IF room = Null THEN Return(w, Rejected("TypeError"))
           ELSE IF IndexOf(room[1].clients, op[w].client) = 0
                THEN Goto(w, "removeClientFromRoom_saveRoom",
                          Some([room[1] EXCEPT !.clients = SubSeq(@, 1, Len(@) - 1)]))
           ELSE Goto(w, "removeClientFromRoom_saveRoom", Some(Remove(room[1], op[w].client)))
        /\ Book(w, NoOp, NoWrite, ok, FALSE)
    /\ UNCHANGED store /\ Same

\* let room = await this.getRoom(...); indexOf; if (index < 0) return false; splice
RemoveClientFromRoomGetRoom(w) ==
    /\ pc[w] = "removeClientFromRoom_getRoom"
    /\ \E ok \in Outcomes :
        LET room == GetRoomResult(HGet(sel[w], op[w].ns, op[w].room)) IN
        /\ IF ~ok THEN Return(w, OnStoreError("removeClientFromRoom"))
           ELSE IF room = Null THEN Return(w, Rejected("TypeError"))
           ELSE IF IndexOf(room[1].clients, op[w].client) = 0 THEN Return(w, Bool(FALSE))
           ELSE Goto(w, "removeClientFromRoom_saveRoom", Some(Remove(room[1], op[w].client)))
        /\ Book(w, NoOp, NoWrite, ok, FALSE)
    /\ UNCHANGED store /\ Same

\* faulty variant: a room whose last client leaves is deleted (hdel) instead of saved
M_RemoveClientFromRoomSaveRoomHdel(w) ==
    /\ pc[w] = "removeClientFromRoom_saveRoom"
    /\ \E ok \in Outcomes :
        /\ store' = IF ~ok THEN store
                    ELSE IF loc[w][1].clients = <<>>
                    THEN [store EXCEPT ![sel[w]][op[w].ns] =
                            [f \in (DOMAIN @) \ {op[w].room} |-> @[f]]]
                    ELSE SaveRoom(sel[w], op[w].ns, op[w].room, loc[w][1])
        /\ Return(w, IF ok THEN Bool(TRUE) ELSE OnStoreError("removeClientFromRoom"))
        /\ Book(w, NoOp, IF ok THEN Write(sel[w], op[w].ns, op[w].room) ELSE NoWrite, ok, FALSE)
    /\ Same

\* await this._saveRoom(namespace, roomName, room); return true
RemoveClientFromRoomSaveRoom(w) ==
    /\ pc[w] = "removeClientFromRoom_saveRoom"
    /\ \E ok \in Outcomes :
        /\ store' = IF ok THEN SaveRoom(sel[w], op[w].ns, op[w].room, loc[w][1]) ELSE store
        /\ Return(w, IF ok THEN Bool(TRUE) ELSE OnStoreError("removeClientFromRoom"))
        /\ Book(w, NoOp, IF ok THEN Write(sel[w], op[w].ns, op[w].room) ELSE NoWrite, ok, FALSE)
    /\ Same

\* --------------------------------------------- removeClientFromNamespace
\* faulty variant: the iteration ends after the first room
M_NextRoomStop(w) == Return(w, Bool(TRUE))

\* asyncForEach goes on to the next key, or removeClientFromNamespace returns true
NextRoom(w) ==
    IF Len(todo[w]) > 1
    THEN Local(w, "removeClientFromNamespace_roomExists", Null, NoResult, Tail(todo[w]))
    ELSE Return(w, Bool(TRUE))

\* faulty variant: the rooms to visit are the fields of the hgetall reply,
\* parsed or not
M_RemoveClientFromNamespaceKeys(w, ns, c) ==
    /\ CanCall(w)
    /\ \E ok \in Outcomes :
        LET reply == HGetAll(sel[w], ns) IN
        /\ IF ~ok THEN Return(w, OnStoreError("removeClientFromNamespace"))
           ELSE IF reply = Null THEN Return(w, Bool(FALSE))
           ELSE \E order \in Orders(DOMAIN reply[1]) :
                    Local(w, "removeClientFromNamespace_roomExists", Null, NoResult, order)
        /\ Book(w, Call("removeClientFromNamespace", sel[w], ns, "*", c), NoWrite, ok, FALSE)
    /\ UNCHANGED store /\ Same

\* const allRooms = await this.getRooms(namespace); if (allRooms === null ...) return false
RemoveClientFromNamespace(w, ns, c) ==
    /\ CanCall(w)
    /\ \E ok \in Outcomes :
        LET allRooms == GetRoomsResult(HGetAll(sel[w], ns)) IN
        /\ IF ~ok THEN Return(w, OnStoreError("removeClientFromNamespace"))
           ELSE IF allRooms = Null THEN Return(w, Bool(FALSE))
           ELSE \E order \in Orders(DOMAIN allRooms[1]) :
                    Local(w, "removeClientFromNamespace_roomExists", Null, NoResult, order)
        /\ Book(w, Call("removeClientFromNamespace", sel[w], ns, "*", c), NoWrite, ok, FALSE)
    /\ UNCHANGED store /\ Same

\* the callback's removeClientFromRoom: if (!(await this.roomExists(...))) return false
RemoveClientFromNamespaceRoomExists(w) ==
    /\ pc[w] = "removeClientFromNamespace_roomExists"
    /\ \E ok \in Outcomes :
        /\ IF ~ok THEN Return(w, OnStoreError("removeClientFromNamespace"))
           ELSE IF ~RoomExistsResult(HGet(sel[w], op[w].ns, Head(todo[w]))) THEN NextRoom(w)
           ELSE Goto(w, "removeClientFromNamespace_getRoom", Null)
        /\ Book(w, NoOp, NoWrite, ok, FALSE)
    /\ UNCHANGED store /\ Same

\* faulty variant: a room that is not active is left as it is
M_RemoveClientFromNamespaceGetRoomActiveOnly(w) ==
    /\ pc[w] = "removeClientFromNamespace_getRoom"
    /\ \E ok \in Outcomes :
        LET room == GetRoomResult(HGet(sel[w], op[w].ns, Head(todo[w]))) IN
        /\ IF ~ok THEN Return(w, OnStoreError("removeClientFromNamespace"))
           ELSE IF room = Null THEN Return(w, Rejected("TypeError"))
           ELSE IF ~room[1].active THEN NextRoom(w)
           ELSE IF IndexOf(room[1].clients, op[w].client) = 0 THEN NextRoom(w)
           ELSE Goto(w, "removeClientFromNamespace_saveRoom",
                     Some(Remove(room[1], op[w].client)))
        /\ Book(w, NoOp, NoWrite, ok, FALSE)
    /\ UNCHANGED store /\ Same

\* the callback's removeClientFromRoom: getRoom, indexOf, splice
RemoveClientFromNamespaceGetRoom(w) ==
    /\ pc[w] = "removeClientFromNamespace_getRoom"
    /\ \E ok \in Outcomes :
        LET room == GetRoomResult(HGet(sel[w], op[w].ns, Head(todo[w]))) IN
        /\ IF ~ok THEN Return(w, OnStoreError("removeClientFromNamespace"))
           ELSE IF room = Null THEN Return(w, Rejected("TypeError"))
           ELSE IF IndexOf(room[1].clients, op[w].client) = 0 THEN NextRoom(w)
           ELSE Goto(w, "removeClientFromNamespace_saveRoom",
                     Some(Remove(room[1], op[w].client)))
        /\ Book(w, NoOp, NoWrite, ok, FALSE)
    /\ UNCHANGED store /\ Same

\* the callback's removeClientFromRoom: _saveRoom
RemoveClientFromNamespaceSaveRoom(w) ==
    /\ pc[w] = "removeClientFromNamespace_saveRoom"
    /\ \E ok \in Outcomes :
        /\ store' = IF ok THEN SaveRoom(sel[w], op[w].ns, Head(todo[w]), loc[w][1]) ELSE store
        /\ IF ~ok THEN Return(w, OnStoreError("removeClientFromNamespace"))
           ELSE NextRoom(w)
        /\ Book(w, NoOp, IF ok THEN Write(sel[w], op[w].ns, Head(todo[w])) ELSE NoWrite,
                ok, FALSE)
    /\ Same

\* ------------------------------------------------------------ environment
\* the caller of a completed call takes its outcome
Settle(w) ==
    /\ pc[w] = "done"
    /\ pc' = [pc EXCEPT ![w] = "idle"]
    /\ op' = [op EXCEPT ![w] = NoOp]
    /\ res' = [res EXCEPT ![w] = NoResult]
    /\ snap' = [snap EXCEPT ![w] = <<>>]
    /\ raced' = [raced EXCEPT ![w] = FALSE]
    /\ touched' = [touched EXCEPT ![w] = FALSE]
    /\ faulted' = [faulted EXCEPT ![w] = FALSE]
    /\ clobber' = [clobber EXCEPT ![w] = FALSE]
    /\ overlap' = [overlap EXCEPT ![w] = FALSE]
    /\ UNCHANGED <<store, sel, dbId, loc, todo, restarted, calls, faults, rawWrites, written,
                   redisClient, iter, sched>>

\* a client that bypasses the registry writes a malformed string into a slot:
\* rClientPromisified.hset(namespace, roomName, '{}}}!')
RawWrite(db, ns, r) ==
    /\ calls < MaxCalls
    /\ rawWrites < MaxRawWrites
    /\ calls' = calls + 1
    /\ rawWrites' = rawWrites + 1
    /\ store' = HSet(db, ns, r, WrongJson)
    /\ raced' = [v \in Workers |-> RacedBy(Write(db, ns, r), v)]
    /\ touched' = [v \in Workers |-> TouchedBy(Write(db, ns, r), v)]
    /\ written' = [written EXCEPT ![db][ns][r] = Null]
    /\ UNCHANGED <<sel, dbId, pc, op, loc, todo, res, restarted, faults, snap, faulted,
                   clobber, overlap, redisClient, iter, sched>>

\* the worker process stops and a new one starts: new RoomManager(id)
Restart(w, id) ==
    /\ pc[w] = "idle"
    /\ calls < MaxCalls
    /\ calls' = calls + 1
    /\ sel' = [sel EXCEPT ![w] = DefaultDb]
    /\ dbId' = [dbId EXCEPT ![w] = id]
    /\ restarted' = [restarted EXCEPT ![w] = TRUE]
    /\ UNCHANGED <<store, pc, op, loc, todo, res, faults, rawWrites, snap, raced, touched,
                   faulted, clobber, overlap, written, redisClient, iter, sched>>

\* ------------------------------------------------------------------ Next
Next ==
    \/ \E w \in Workers :
        \/ InitSelect(w)
        \/ InitFlushdb(w)
        \/ \E ns \in Namespaces : GetRooms(w, ns)
        \/ \E s \in Slots : GetRoom(w, s[1], s[2])
        \/ \E s \in Slots : RoomExists(w, s[1], s[2])
        \/ \E s \in Slots : RoomEmpty(w, s[1], s[2])
        \/ RoomEmptyGetRoom(w)
        \/ \E s \in Slots : AddRoom(w, s[1], s[2])
        \/ AddRoomExists(w)
        \/ AddRoomSaveRoom(w)
        \/ \E s \in Slots : ActivateRoom(w, s[1], s[2])
        \/ ActivateRoomGetRoom(w)
        \/ ActivateRoomSaveRoom(w)
        \/ \E s \in Slots : DeactivateRoom(w, s[1], s[2])
        \/ DeactivateRoomGetRoom(w)
        \/ DeactivateRoomSaveRoom(w)
        \/ \E s \in Slots, c \in Clients : AddClient(w, s[1], s[2], c)
        \/ AddClientGetRoom(w)
        \/ AddClientSaveRoom(w)
        \/ \E s \in Slots, c \in Clients : RemoveClientFromRoom(w, s[1], s[2], c)
        \/ RemoveClientFromRoomGetRoom(w)
        \/ RemoveClientFromRoomSaveRoom(w)
        \/ \E ns \in Namespaces, c \in Clients : RemoveClientFromNamespace(w, ns, c)
        \/ RemoveClientFromNamespaceRoomExists(w)
        \/ RemoveClientFromNamespaceGetRoom(w)
        \/ RemoveClientFromNamespaceSaveRoom(w)
        \/ Settle(w)
        \/ \E id \in DbIds : Restart(w, id)
    \/ \E db \in Dbs, s \in Slots : RawWrite(db, s[1], s[2])

Spec == Init /\ [][Next]_vars

\* =================================================================== claims
\* w's call `name` has completed and its caller has not yet taken the result
Done(w, name) == pc[w] = "done" /\ op[w].name = name

\* nobody else wrote the target of w's call since the call was issued
Clean(w) == ~raced[w] /\ ~touched[w]

\* what the slot of w's call holds now
Slot(w) == HGet(op[w].db, op[w].ns, op[w].room)

\* a and b name the same slot of the same keyspace
SameSlot(a, b) ==
    op[a].db = op[b].db /\ op[a].ns = op[b].ns /\ op[a].room = op[b].room

\* the hget reply v is a stored room (the one unparseable value is WrongJson)
IsRoom(v) == v # Null /\ v[1] # WrongJson

\* the clients of the hget reply v, none for a missing or malformed slot
ClientsOf(v) == IF IsRoom(v) THEN JSONparse(v[1]).clients ELSE <<>>

\* the active flag of the hget reply v, true for a missing or malformed slot
ActiveOf(v) == IF IsRoom(v) THEN JSONparse(v[1]).active ELSE TRUE

Range(seq) == {seq[i] : i \in 1 .. Len(seq)}

\* seq without its first occurrence of c
RECURSIVE RemoveFirst(_, _)
RemoveFirst(seq, c) ==
    IF seq = <<>> THEN <<>>
    ELSE IF Head(seq) = c THEN Tail(seq)
    ELSE <<Head(seq)>> \o RemoveFirst(Tail(seq), c)

Mutators == {"addRoom", "activateRoom", "deactivateRoom", "addClient", "removeClientFromRoom"}

WriteOps == Mutators \cup {"removeClientFromNamespace"}

\* the result and the slot after call o has run alone on a slot holding v
Sequential(o, v) ==
    CASE o.name = "addRoom" ->
            IF IsRoom(v) THEN <<Bool(FALSE), v>>
            ELSE <<Bool(TRUE), Some(Stored(<<>>, TRUE))>>
      [] o.name = "activateRoom" -> <<Undefined, Some(Stored(ClientsOf(v), TRUE))>>
      [] o.name = "deactivateRoom" -> <<Undefined, Some(Stored(ClientsOf(v), FALSE))>>
      [] o.name = "addClient" ->
            <<Undefined, Some(Stored(ClientsOf(v) \o <<o.client>>, ActiveOf(v)))>>
      [] o.name = "removeClientFromRoom" ->
            IF o.client \in Range(ClientsOf(v))
            THEN <<Bool(TRUE), Some(Stored(RemoveFirst(ClientsOf(v), o.client), ActiveOf(v)))>>
            ELSE <<Bool(FALSE), v>>

\* ----------------------------------------------------------------------- C1
\* C1: addRoom run without interference returns false and leaves the stored
\* room as it was when the room exists, and otherwise stores
\* {clients: [], active: true} and returns true.
C1_AddRoomContract ==
    \A w \in Workers :
        (Done(w, "addRoom") /\ ~faulted[w] /\ Clean(w)) =>
            IF IsRoom(snap[w])
            THEN res[w] = Bool(FALSE) /\ Slot(w) = snap[w]
            ELSE res[w] = Bool(TRUE) /\ Slot(w) = Some(Stored(<<>>, TRUE))

\* two addRoom calls in a row on an empty slot: true, then false, clients []
C1_Witness ==
    \E a, b \in Workers :
        /\ a # b /\ Done(a, "addRoom") /\ Done(b, "addRoom") /\ SameSlot(a, b)
        /\ snap[a] = Null /\ res[a] = Bool(TRUE) /\ ~raced[a]
        /\ snap[b] = Some(Stored(<<>>, TRUE)) /\ res[b] = Bool(FALSE)
        /\ Slot(a) = Some(Stored(<<>>, TRUE))

\* ----------------------------------------------------------------------- C2
\* C2: when two workers have both completed addClient on the same room
\* without error, the stored list ends with the client of one of them (the
\* last writer); nothing says it holds both, and the witness is a state in
\* which the other client is lost.
C2_LastWriterSurvives ==
    \A a, b \in Workers :
        (/\ a # b /\ Done(a, "addClient") /\ Done(b, "addClient") /\ SameSlot(a, b)
         /\ res[a] = Undefined /\ res[b] = Undefined /\ rawWrites = 0) =>
            /\ IsRoom(Slot(a))
            /\ ClientsOf(Slot(a)) # <<>>
            /\ ClientsOf(Slot(a))[Len(ClientsOf(Slot(a)))] \in {op[a].client, op[b].client}

\* both addClient calls read the same room, both completed, and only a's
\* client is stored
C2_Witness ==
    \E a, b \in Workers :
        /\ a # b /\ Done(a, "addClient") /\ Done(b, "addClient") /\ SameSlot(a, b)
        /\ res[a] = Undefined /\ res[b] = Undefined
        /\ rawWrites = 0 /\ faults = 0 /\ calls = 2
        /\ op[a].client # op[b].client
        /\ snap[a] = snap[b]
        /\ raced[a]
        /\ ClientsOf(Slot(a)) = ClientsOf(snap[a]) \o <<op[a].client>>
        /\ op[b].client \notin Range(ClientsOf(Slot(a)))

\* ----------------------------------------------------------------------- C3
\* C3: a mutating call that completes while another worker runs or has run a
\* mutating call on a different (namespace, room) pair of the same keyspace
\* returns what it returns when run alone and leaves its slot as it does
\* when run alone, unless somebody wrote its own slot meanwhile.
C3_IndependentRooms ==
    \A a, b \in Workers :
        (/\ a # b /\ pc[a] = "done" /\ op[a].name \in Mutators /\ ~faulted[a]
         /\ op[b].name \in Mutators /\ op[b].db = op[a].db /\ ~SameSlot(a, b)
         /\ Clean(a)) =>
            <<res[a], Slot(a)>> = Sequential(op[a], snap[a])

\* two mutating calls on two rooms of one namespace overlapped and both wrote
C3_Witness ==
    \E a, b \in Workers :
        /\ a # b /\ pc[a] = "done" /\ pc[b] = "done"
        /\ op[a].name \in Mutators /\ op[b].name \in Mutators
        /\ op[b].db = op[a].db /\ op[b].ns = op[a].ns /\ op[b].room # op[a].room
        /\ ~faulted[a] /\ ~faulted[b] /\ calls = 2 /\ rawWrites = 0
        /\ overlap[a]
        /\ Slot(a) # snap[a] /\ Slot(b) # snap[b]
        /\ <<res[b], Slot(b)>> = Sequential(op[b], snap[b])

\* ----------------------------------------------------------------------- C4
\* C4 as stated: after the init() of a restarted worker every room that was
\* stored in its keyspace when init() was called is still returned.
C4_SurvivesRestart ==
    \A w \in Workers :
        (Done(w, "init") /\ restarted[w] /\ res[w] = Bool(TRUE) /\ Clean(w)) =>
            \A s \in Slots :
                GetRoomResult(HGet(op[w].db, s[1], s[2]))
                    = GetRoomResult(FieldOf(snap[w][1][s[1]], s[2]))

\* C4 as amended: after the successful init() of a restarted worker its
\* keyspace holds no room at all, whatever it held before.
C4_RestartInitFlushes ==
    \A w \in Workers :
        (Done(w, "init") /\ restarted[w] /\ res[w] = Bool(TRUE) /\ ~touched[w]) =>
            \A ns \in Namespaces : HGetAll(op[w].db, ns) = Null

\* a restarted worker's init() has emptied a keyspace that held rooms
C4_Witness ==
    \E w \in Workers :
        /\ Done(w, "init") /\ restarted[w] /\ res[w] = Bool(TRUE)
        /\ \E s \in Slots : IsRoom(FieldOf(snap[w][1][s[1]], s[2]))
        /\ \A ns \in Namespaces : HGetAll(op[w].db, ns) = Null

\* ----------------------------------------------------------------------- C5
\* C5: the creation write of addRoom (the one after which addRoom returns
\* true) never lands on a slot in which a room is stored, so that of the
\* calls racing to create a room one returns true and no stored change is
\* overwritten.
C5_CreationNeverOverwrites == \A w \in Workers : ~clobber[w]

\* ----------------------------------------------------------------------- C6
\* C6: init() always ends with a boolean; the boolean is true exactly when
\* select and flushdb both succeeded, and then the keyspace is empty.
C6_InitContract ==
    \A w \in Workers :
        Done(w, "init") =>
            /\ res[w].kind = "bool"
            /\ res[w] = Bool(TRUE) <=> (~faulted[w] /\ op[w].db \in Dbs)
            /\ (res[w] = Bool(TRUE) /\ ~touched[w]) =>
                    \A ns \in Namespaces : GetRoomsResult(HGetAll(op[w].db, ns)) = Null

\* init() with an out-of-range database index has returned false
C6_Witness ==
    \E w \in Workers :
        Done(w, "init") /\ op[w].db = BadDbId /\ ~faulted[w] /\ res[w] = Bool(FALSE)

\* ----------------------------------------------------------------------- C7
\* C7: getRoom returns the room whose serialization the slot holds, null for
\* a missing slot and null for a malformed one, and leaves the slot alone.
C7_GetRoomContract ==
    \A w \in Workers :
        (Done(w, "getRoom") /\ ~faulted[w]) =>
            /\ res[w].kind = "value"
            /\ res[w].val = Null <=> (snap[w] = Null \/ snap[w][1] = WrongJson)
            /\ res[w].val # Null => JSONstringify(res[w].val[1]) = snap[w][1]
            /\ ~touched[w] => Slot(w) = snap[w]

\* getRoom has answered null for a malformed slot
C7_Witness ==
    \E w \in Workers :
        /\ Done(w, "getRoom") /\ ~faulted[w]
        /\ snap[w] = Some(WrongJson) /\ res[w] = Value(Null) /\ Slot(w) = snap[w]

\* ----------------------------------------------------------------------- C8
\* C8: getRooms returns null for a namespace without rooms and for one with
\* a malformed value, and otherwise the mapping of all its room names to
\* their rooms.
C8_GetRoomsContract ==
    \A w \in Workers :
        (Done(w, "getRooms") /\ ~faulted[w]) =>
            /\ res[w].kind = "value"
            /\ res[w].val = Null <=>
                    (snap[w] = Null \/ \E r \in DOMAIN snap[w][1] : snap[w][1][r] = WrongJson)
            /\ res[w].val # Null =>
                    /\ DOMAIN res[w].val[1] = DOMAIN snap[w][1]
                    /\ \A r \in DOMAIN snap[w][1] :
                            JSONstringify(res[w].val[1][r]) = snap[w][1][r]

\* getRooms has answered null for a namespace with a room and a malformed value
C8_Witness ==
    \E w \in Workers :
        /\ Done(w, "getRooms") /\ ~faulted[w] /\ res[w] = Value(Null)
        /\ snap[w] # Null
        /\ \E r1, r2 \in DOMAIN snap[w][1] :
                snap[w][1][r1] = WrongJson /\ IsRoom(Some(snap[w][1][r2]))

\* ----------------------------------------------------------------------- C9
\* C9 as stated: getRoom and getRooms never reject.
C9_ReadsNeverReject ==
    \A w \in Workers :
        (pc[w] = "done" /\ op[w].name \in {"getRoom", "getRooms"}) =>
            res[w].kind # "reject"

\* C9 as amended: getRoom and getRooms end with a value whenever the store
\* command succeeds, and reject exactly when the store command fails.
C9_ReadsRejectOnStoreFailureOnly ==
    \A w \in Workers :
        (pc[w] = "done" /\ op[w].name \in {"getRoom", "getRooms"}) =>
            /\ res[w].kind \in {"value", "reject"}
            /\ res[w].kind = "reject" <=> faulted[w]

\* a read has rejected because its store command failed
C9_Witness ==
    \E w \in Workers :
        Done(w, "getRoom") /\ faulted[w] /\ res[w] = Rejected("store")

\* ---------------------------------------------------------------------- C10
\* C10: a mutating call in which a store command failed ends rejected, never
\* with a normal result; init ends with false instead.
C10_WriteErrorsPropagate ==
    \A w \in Workers :
        (pc[w] = "done" /\ faulted[w]) =>
            /\ op[w].name \in WriteOps => res[w] = Rejected("store")
            /\ op[w].name = "init" => res[w] = Bool(FALSE)

\* addClient created the room, its last write failed and the call rejected
C10_Witness ==
    \E w \in Workers :
        /\ Done(w, "addClient") /\ faulted[w] /\ res[w] = Rejected("store")
        /\ snap[w] = Null /\ Slot(w) = Some(Stored(<<>>, TRUE))

C13_AddClientContract ==
    \A w \in Workers :
        (Done(w, "addClient") /\ ~faulted[w] /\ Clean(w)) =>
            /\ res[w] = Undefined
            /\ Slot(w) = Some(Stored(ClientsOf(snap[w]) \o <<op[w].client>>, ActiveOf(snap[w])))

\* addClient has appended a client that was in the list of an inactive room
C13_Witness ==
    \E w \in Workers :
        /\ Done(w, "addClient") /\ ~faulted[w] /\ Clean(w)
        /\ IsRoom(snap[w]) /\ ~ActiveOf(snap[w])
        /\ op[w].client \in Range(ClientsOf(snap[w]))
        /\ Len(ClientsOf(Slot(w))) = Len(ClientsOf(snap[w])) + 1
        /\ ~ActiveOf(Slot(w))

\* ---------------------------------------------------------------------- C14
\* what removeClientFromRoom run without interference returns and leaves
C14_RemoveResult ==
    \A w \in Workers :
        (Done(w, "removeClientFromRoom") /\ ~faulted[w] /\ Clean(w)) =>
            /\ res[w] = Bool(op[w].client \in Range(ClientsOf(snap[w])))
            /\ res[w] = Bool(FALSE) => Slot(w) = snap[w]
            /\ IsRoom(Slot(w)) <=> IsRoom(snap[w])
            /\ ActiveOf(Slot(w)) = ActiveOf(snap[w])

\* a step of a removeClientFromRoom call that writes ends the call with true
C14_WriteOnlyWhenTrue ==
    \A w \in Workers :
        (/\ op'[w].name = "removeClientFromRoom"
         /\ pc'[w] # pc[w]
         /\ (store' # store \/ written' # written)) =>
            res'[w] = Bool(TRUE)

\* C14: removeClientFromRoom returns false and writes nothing when the slot
\* holds no room or the room's list lacks the client (it does not create the
\* room); it returns true exactly when the client was in the list, and then
\* the active flag is the one the room had.
C14_RemoveClientFromRoomContract ==
    []C14_RemoveResult /\ [][C14_WriteOnlyWhenTrue]_vars

\* removeClientFromRoom returned false for a client the room lacked, and
\* true for one an inactive room held
C14_Witness ==
    \E a, b \in Workers :
        /\ a # b /\ Done(a, "removeClientFromRoom") /\ Done(b, "removeClientFromRoom")
        /\ ~faulted[a] /\ ~faulted[b] /\ Clean(a) /\ Clean(b)
        /\ IsRoom(snap[a]) /\ op[a].client \notin Range(ClientsOf(snap[a]))
        /\ res[a] = Bool(FALSE) /\ Slot(a) = snap[a]
        /\ IsRoom(snap[b]) /\ ~ActiveOf(snap[b]) /\ res[b] = Bool(TRUE)
        /\ ~ActiveOf(Slot(b))

\* ---------------------------------------------------------------------- C15
\* C15: a removeClientFromRoom that returned true has shortened the list by
\* one entry: the first occurrence of the client is gone and all the other
\* entries, further occurrences of the client included, are in their order.
C15_ExactlyOneRemoved ==
    \A w \in Workers :
        (Done(w, "removeClientFromRoom") /\ res[w] = Bool(TRUE) /\ Clean(w)) =>
            LET before == ClientsOf(snap[w])
                after == ClientsOf(Slot(w))
            IN  /\ Len(after) = Len(before) - 1
                /\ after = RemoveFirst(before, op[w].client)
                /\ \E i \in 1 .. Len(before) :
                        /\ before[i] = op[w].client
                        /\ \A j \in 1 .. (i - 1) : before[j] # op[w].client
                        /\ after = SubSeq(before, 1, i - 1) \o SubSeq(before, i + 1, Len(before))

\* a room with clients [x, x] has become [x]
C15_Witness ==
    \E w \in Workers : \E x \in Clients :
        /\ Done(w, "removeClientFromRoom") /\ res[w] = Bool(TRUE) /\ Clean(w)
        /\ op[w].client = x
        /\ ClientsOf(snap[w]) = <<x, x>>
        /\ ClientsOf(Slot(w)) = <<x>>

\* ---------------------------------------------------------------------- C16
\* the namespace hash the removeClientFromNamespace call of w read at its start
HashBefore(w) == IF snap[w] = Null THEN EmptyHash ELSE snap[w][1]

\* every field of the hash is a stored room
AllRooms(hash) == \A r \in DOMAIN hash : IsRoom(Some(hash[r]))

\* C16: removeClientFromNamespace returns false for a namespace without
\* rooms; for a namespace with rooms it returns true if the client was in the
\* list of at least one of them and false if it was in none.
C16_AggregateResult ==
    \A w \in Workers :
        (Done(w, "removeClientFromNamespace") /\ ~faulted[w] /\ Clean(w)
            /\ AllRooms(HashBefore(w))) =>
            IF snap[w] = Null THEN res[w] = Bool(FALSE)
            ELSE res[w] = Bool(\E r \in DOMAIN HashBefore(w) :
                                op[w].client \in Range(ClientsOf(Some(HashBefore(w)[r]))))

\* ---------------------------------------------------------------------- C17
\* the rooms of the namespace after an undisturbed removeClientFromNamespace
C17_RoomsAfter ==
    \A w \in Workers :
        (Done(w, "removeClientFromNamespace") /\ ~faulted[w] /\ Clean(w)
            /\ AllRooms(HashBefore(w))) =>
            LET before == HashBefore(w)
                now == store[op[w].db][op[w].ns]
            IN  /\ DOMAIN now = DOMAIN before
                /\ \A r \in DOMAIN before :
                        now[r] = Stored(RemoveFirst(ClientsOf(Some(before[r])), op[w].client),
                                        ActiveOf(Some(before[r])))

\* a step of a removeClientFromNamespace call leaves every other namespace
\* and every other keyspace as it is
C17_OnlyItsNamespace ==
    \A w \in Workers :
        (/\ op'[w].name = "removeClientFromNamespace"
         /\ (pc'[w] # pc[w] \/ todo'[w] # todo[w])) =>
            \A db \in Dbs : \A ns \in Namespaces :
                (db # op'[w].db \/ ns # op'[w].ns) => store'[db][ns] = store[db][ns]

\* C17: removeClientFromNamespace run without interference takes one
\* occurrence of the client out of every room of the namespace that holds
\* it and leaves alone the other entries of those rooms, the rooms without
\* the client, every active flag and the rooms of every other namespace.
C17_NamespaceRemovalIsolation ==
    []C17_RoomsAfter /\ [][C17_OnlyItsNamespace]_vars

\* of two rooms of the namespace one held the client twice beside another
\* client and lost one occurrence, the other lacked it and is as it was
C17_Witness ==
    \E w \in Workers :
        /\ Done(w, "removeClientFromNamespace") /\ ~faulted[w] /\ Clean(w)
        /\ res[w] = Bool(TRUE)
        /\ \E r1, r2 \in DOMAIN HashBefore(w) :
            LET b1 == ClientsOf(Some(HashBefore(w)[r1]))
                a1 == ClientsOf(HGet(op[w].db, op[w].ns, r1))
            IN  /\ r1 # r2
                /\ Len(b1) = 3 /\ Len(a1) = 2
                /\ op[w].client \in Range(a1)
                /\ Range(a1) = Range(b1)
                /\ op[w].client \notin Range(ClientsOf(Some(HashBefore(w)[r2])))
                /\ HGet(op[w].db, op[w].ns, r2) = Some(HashBefore(w)[r2])

\* ---------------------------------------------------------------------- C18
\* C18: a getRoom answers, for a slot into which a registry call has saved a
\* room object and which nobody has written since, an object equal to the
\* saved one, whichever worker reads.
C18_RoundTrip ==
    \A b \in Workers :
        (/\ Done(b, "getRoom") /\ ~faulted[b] /\ ~touched[b]
         /\ written[op[b].db][op[b].ns][op[b].room] # Null) =>
            res[b] = Value(written[op[b].db][op[b].ns][op[b].room])

\* one worker's deactivateRoom changed a room with clients, another worker's
\* getRoom read it afterwards and answered the object that was saved
C18_Witness ==
    \E a, b \in Workers :
        /\ a # b /\ Done(a, "deactivateRoom") /\ res[a] = Undefined
        /\ Done(b, "getRoom") /\ ~faulted[b] /\ SameSlot(a, b)
        /\ snap[b] # snap[a] /\ snap[b] = Slot(a)
        /\ written[op[b].db][op[b].ns][op[b].room] # Null
        /\ res[b] = Value(written[op[b].db][op[b].ns][op[b].room])
        /\ res[b].val[1].clients # <<>> /\ ~res[b].val[1].active

\* ---------------------------------------------------------------------- C19
FlagBlindOps == {"addRoom", "addClient", "removeClientFromRoom", "roomExists", "roomEmpty"}

\* the result of call o and the clients it leaves, from what the active flag
\* has no part in: whether the slot holds a room, and the room's clients
FlagBlind(o, exists, clients) ==
    CASE o.name = "addRoom" ->
            IF exists THEN <<Bool(FALSE), clients>> ELSE <<Bool(TRUE), <<>>>>
      [] o.name = "addClient" -> <<Undefined, clients \o <<o.client>>>>
      [] o.name = "removeClientFromRoom" ->
            IF o.client \in Range(clients)
            THEN <<Bool(TRUE), RemoveFirst(clients, o.client)>>
            ELSE <<Bool(FALSE), clients>>
      [] o.name = "roomExists" -> <<Bool(exists), clients>>
      [] o.name = "roomEmpty" -> <<Bool(~exists \/ clients = <<>>), clients>>

\* w's call is one of the flag-blind calls and ran undisturbed
Undisturbed(w) ==
    pc[w] = "done" /\ op[w].name \in FlagBlindOps /\ ~faulted[w] /\ Clean(w)

FlushOrRaw ==
    \/ rawWrites' # rawWrites
    \/ \E w \in Workers : pc[w] = "init_flushdb" /\ pc'[w] # pc[w]

\* a slot that holds a room holds a room after every step of a registry call
C20_StaysStored ==
    FlushOrRaw \/
        \A db \in Dbs : \A ns \in Namespaces : \A r \in Rooms :
            IsRoom(FieldOf(store[db][ns], r)) => IsRoom(FieldOf(store'[db][ns], r))

\* the removal of a room's only client leaves the room stored with clients []
C20_LastClientLeaves ==
    \A w \in Workers :
        (/\ Done(w, "removeClientFromRoom") /\ res[w] = Bool(TRUE) /\ Clean(w)
         /\ Len(ClientsOf(snap[w])) = 1) =>
            /\ Slot(w) = Some(Stored(<<>>, ActiveOf(snap[w])))
            /\ RoomExistsResult(Slot(w))

MaxDestroys == 3     \* destroy() calls on one registry

\* the registries are constructed on an empty store and make no call
RegistryQuiet == RegistryStart(DefaultDb) /\ store = [db \in Dbs |-> SeedEmpty]

\* the stream's 'connect' event: this._client.connected becomes true
Connect(w) ==
    /\ ~redisClient[w].connected /\ ~redisClient[w].closing
    /\ redisClient' = [redisClient EXCEPT ![w].connected = TRUE]
    /\ UNCHANGED <<registry, iter, sched>>

\* the server drops the connection; the client will connect again
ConnectionLost(w) ==
    /\ redisClient[w].connected
    /\ redisClient' = [redisClient EXCEPT ![w].connected = FALSE]
    /\ UNCHANGED <<registry, iter, sched>>

\* this._client.end(true): the client afterwards
End(c) == [c EXCEPT !.connected = FALSE, !.closing = TRUE, !.ends = @ + 1]

\* faulty variant: destroy() ends the client without looking at connected
M_DestroyAlways(w) ==
    /\ redisClient[w].destroys < MaxDestroys
    /\ redisClient' = [redisClient EXCEPT ![w] = [End(@) EXCEPT !.destroys = @ + 1]]
    /\ UNCHANGED <<registry, iter, sched>>

\* destroy(): if (this._client.connected) return this._client.end(true)
Destroy(w) ==
    /\ redisClient[w].destroys < MaxDestroys
    /\ redisClient' = [redisClient EXCEPT ![w] =
            [(IF @.connected THEN End(@) ELSE @) EXCEPT !.destroys = @ + 1]]
    /\ UNCHANGED <<registry, iter, sched>>

DestroyInit == RegistryQuiet /\ AsideIdle

DestroyNext == \E w \in Workers : Connect(w) \/ ConnectionLost(w) \/ Destroy(w)

DestroySpec == DestroyInit /\ [][DestroyNext]_vars

\* ---------------------------------------------------------------------- C21
\* a destroy() on a connected client ends it; on a client that is not
\* connected it changes nothing
C21_DestroyStep ==
    \A w \in Workers :
        redisClient'[w].destroys # redisClient[w].destroys =>
            IF redisClient[w].connected
            THEN /\ redisClient'[w].ends = redisClient[w].ends + 1
                 /\ ~redisClient'[w].connected /\ redisClient'[w].closing
            ELSE redisClient'[w] = [redisClient[w] EXCEPT !.destroys = @ + 1]

\* a client is ended at most once, and an ended client is never connected
C21_EndedOnce ==
    \A w \in Workers :
        /\ redisClient[w].ends <= 1
        /\ redisClient[w].closing <=> redisClient[w].ends = 1
        /\ redisClient[w].closing => ~redisClient[w].connected

\* C21: destroy() closes the connection when it is open and does nothing
\* when the registry is not connected; after a destroy() that closed the
\* connection no later destroy() closes it again.
C21_DestroyIdempotent == []C21_EndedOnce /\ [][C21_DestroyStep]_vars

\* a second destroy() has completed after the one that closed the connection
C21_Witness ==
    \E w \in Workers :
        /\ redisClient[w].destroys >= 2 /\ redisClient[w].ends = 1
        /\ redisClient[w].closing /\ ~redisClient[w].connected

\* ============================================================ asyncForEach
\* h.asyncForEach(iterable, callback), apart from the registry calls
MaxLen == 3          \* elements of an array, properties of an object

ItemValues == {"x", "y"}
PropNames == {"p", "q", "r"}

\* the sequences over S of length at most n
SeqsUpTo(S, n) == UNION {[1 .. k -> S] : k \in 0 .. n}

\* an array as its entries <<index, element>>, indices from 0
ArrayOf(elems) ==
    [kind |-> "array", entries |-> [i \in 1 .. Len(elems) |-> <<i - 1, elems[i]>>]]

\* the value an object of the inputs holds under property p
PropValue(p) == IF p = "q" THEN "y" ELSE "x"

\* an object as its entries <<property, value>> in the order for-in visits them
ObjectOf(props) ==
    [kind |-> "object", entries |-> [i \in 1 .. Len(props) |-> <<props[i], PropValue(props[i])>>]]

\* the values asyncForEach is given
Iterables ==
    {ArrayOf(e) : e \in SeqsUpTo(ItemValues, MaxLen)}
    \cup {ObjectOf(ps) : ps \in {q \in SeqsUpTo(PropNames, MaxLen) :
                                    \A i, j \in 1 .. Len(q) : q[i] = q[j] => i = j}}
    \cup {[kind |-> "string", entries |-> <<<<0, "x">>, <<1, "y">>>>],
          [kind |-> "number", entries |-> <<>>],
          [kind |-> "null", entries |-> <<>>]}

\* Array.isArray(iterable)
IsArray(iterable) == iterable.kind = "array"

\* iterable instanceof Object
InstanceofObject(iterable) == iterable.kind \in {"array", "object"}

\* asyncForEach is called: the first test of the loop it enters, or its return
IterEnter ==
    /\ iter.position = "called"
    /\ iter' = [iter EXCEPT !.position =
                    IF IsArray(iter.input) \/ InstanceofObject(iter.input)
                    THEN "loop" ELSE "returned"]
    /\ UNCHANGED <<registry, redisClient, sched>>

\* faulty variant: the callback is started and not awaited (iterable.forEach(callback))
M_IterInvokeNoAwait ==
    /\ iter.position = "loop"
    /\ iter.at < Len(iter.input.entries)
    /\ iter' = [iter EXCEPT !.at = @ + 1,
                            !.running = @ + 1,
                            !.log = Append(@, iter.input.entries[iter.at + 1])]
    /\ UNCHANGED <<registry, redisClient, sched>>

\* await callback(iterable[index], index, iterable): the callback is started
IterInvoke ==
    /\ iter.position = "loop"
    /\ iter.at < Len(iter.input.entries)
    /\ iter' = [iter EXCEPT !.position = "await",
                            !.running = @ + 1,
                            !.log = Append(@, iter.input.entries[iter.at + 1])]
    /\ UNCHANGED <<registry, redisClient, sched>>

\* a started callback completes; the loop that awaits it goes on to the next
\* element, or asyncForEach rejects with the callback's error
CallbackSettles(ok) ==
    /\ iter.running > 0
    /\ iter' = [iter EXCEPT !.running = @ - 1,
                            !.position = IF @ # "await" THEN @
                                         ELSE IF ok THEN "loop" ELSE "rejected",
                            !.at = IF iter.position = "await" /\ ok THEN @ + 1 ELSE @]
    /\ UNCHANGED <<registry, redisClient, sched>>

\* the loop condition fails: asyncForEach returns
IterReturn ==
    /\ iter.position = "loop"
    /\ iter.at >= Len(iter.input.entries)
    /\ iter' = [iter EXCEPT !.position = "returned"]
    /\ UNCHANGED <<registry, redisClient, sched>>

IterInit ==
    /\ RegistryQuiet
    /\ redisClient = [w \in Workers |-> NewClient]
    /\ sched = NoSchedule
    /\ \E input \in Iterables :
        iter = [input |-> input, position |-> "called", at |-> 0, running |-> 0, log |-> <<>>]

IterNext ==
    \/ IterEnter
    \/ IterInvoke
    \/ \E ok \in BOOLEAN : CallbackSettles(ok)
    \/ IterReturn

IterSpec == IterInit /\ [][IterNext]_vars

\* ---------------------------------------------------------------------- C22
\* the callbacks started so far are those of the first entries, in order,
\* each once, with the entry's value and its index or property name; at most
\* one is in progress; at the return every entry of an array or an object
\* has had its callback, and an input of another kind has had none
C22_Invocations ==
    /\ iter.running <= 1
    /\ Len(iter.log) <= Len(iter.input.entries)
    /\ iter.log = SubSeq(iter.input.entries, 1, Len(iter.log))
    /\ iter.position = "returned" =>
            /\ iter.running = 0
            /\ iter.log = IF iter.input.kind \in {"array", "object"}
                          THEN iter.input.entries ELSE <<>>

\* a callback is started only when none is in progress
C22_OneAtATime == Len(iter'.log) > Len(iter.log) => iter.running = 0

\* C22: asyncForEach invokes the callback once per element of an array, in
\* index order, or once per key of an object, starts no invocation before
\* the previous one has completed, and invokes nothing for an input that is
\* neither an array nor an object.
C22_AsyncForEachSequential == []C22_Invocations /\ [][C22_OneAtATime]_vars

\* an array of three elements, one of them twice, has been iterated to the end
C22_Witness ==
    /\ iter.position = "returned" /\ iter.input.kind = "array"
    /\ Len(iter.log) = 3 /\ iter.log[1][2] = iter.log[3][2] /\ iter.log[2][2] # iter.log[1][2]
    /\ iter.log[3][1] = 2

\* ---------------------------------------------------------------------- C23
\* while no client has bypassed the registry, every stored value is the
\* serialization of a room: a list of clients and a boolean active
C23_WellFormed ==
    rawWrites = 0 =>
        \A db \in Dbs : \A ns \in Namespaces : \A r \in DOMAIN store[db][ns] :
            /\ Parseable(store[db][ns][r])
            /\ JSONstringify(JSONparse(store[db][ns][r])) = store[db][ns][r]

\* a step of a registry call that changes the store, init's flush apart, is
\* one _saveRoom: one slot takes the serialization of the object saved and
\* every other slot stays as it is
C23_OneSlotPerWrite ==
    (store' # store /\ ~FlushOrRaw) =>
        \E db \in Dbs : \E ns \in Namespaces : \E r \in Rooms :
            /\ written'[db][ns][r] # Null
            /\ store' = HSet(db, ns, r, JSONstringify(written'[db][ns][r][1]))

\* C23: in every state reached through registry calls alone every stored
\* value is the serialized form of an object with a clients list and a
\* boolean active, and every write of a mutating call goes through
\* _saveRoom and overwrites exactly one (namespace, room) slot.
C23_StoredRepresentation == []C23_WellFormed /\ [][C23_OneSlotPerWrite]_vars

\* two workers have written the same slot in overlapping calls and the slot
\* holds the serialization of the object saved last
C23_Witness ==
    \E a, b \in Workers :
        /\ a # b /\ pc[a] = "done" /\ pc[b] = "done" /\ SameSlot(a, b)
        /\ op[a].name \in Mutators /\ op[b].name \in Mutators
        /\ raced[a] /\ rawWrites = 0 /\ faults = 0
        /\ written[op[a].db][op[a].ns][op[a].room] # Null
        /\ Slot(a) = Some(JSONstringify(written[op[a].db][op[a].ns][op[a].room][1]))
        /\ Slot(a) # snap[a] /\ Slot(a) # snap[b]

\* ================================================================ scheduler
\* the periodic task "example" of the scheduler module, apart from the registry
MaxTicks == 5        \* invocations of the scheduled job

\* faulty variant: the job starts the worker without looking at currentlyRunning
M_TickNoGuard ==
    /\ sched.ticks < MaxTicks
    /\ sched' = IF sched.enabled = FALSE
                THEN [sched EXCEPT !.ticks = @ + 1, !.skipped = @ + 1]
                ELSE [sched EXCEPT !.ticks = @ + 1, !.started = @ + 1,
                                   !.currentlyRunning = TRUE, !.inProgress = @ + 1]
    /\ UNCHANGED <<registry, redisClient, iter>>

\* the job of scheduleJob fires: it returns when the task is disabled, warns
\* and returns when the worker is running, and else calls the worker, which
\* sets currentlyRunning before its first await
Tick ==
    /\ sched.ticks < MaxTicks
    /\ sched' = IF sched.enabled = FALSE
                THEN [sched EXCEPT !.ticks = @ + 1, !.skipped = @ + 1]
                ELSE IF sched.currentlyRunning = TRUE
                THEN [sched EXCEPT !.ticks = @ + 1, !.cancelled = @ + 1]
                ELSE [sched EXCEPT !.ticks = @ + 1, !.started = @ + 1,
                                   !.currentlyRunning = TRUE, !.inProgress = @ + 1]
    /\ UNCHANGED <<registry, redisClient, iter>>

\* the worker function ends, through the end of its try block or through its
\* catch block: currentlyRunning = false
WorkerEnds(failed) ==
    /\ sched.inProgress > 0
    /\ sched' = [sched EXCEPT !.currentlyRunning = FALSE, !.inProgress = @ - 1]
    /\ UNCHANGED <<registry, redisClient, iter>>

\* config.scheduler.example.enabled is set
SetEnabled(b) ==
    /\ sched.enabled # b
    /\ sched' = [sched EXCEPT !.enabled = b]
    /\ UNCHANGED <<registry, redisClient, iter>>

SchedInit ==
    /\ RegistryQuiet
    /\ redisClient = [w \in Workers |-> NewClient]
    /\ iter = NoIteration
    /\ \E b \in BOOLEAN : sched = [NoSchedule EXCEPT !.enabled = b]

SchedNext ==
    \/ Tick
    \/ \E failed \in BOOLEAN : WorkerEnds(failed)
    \/ \E b \in BOOLEAN : SetEnabled(b)

SchedSpec == SchedInit /\ [][SchedNext]_vars

\* ---------------------------------------------------------------------- C24
\* at most one execution of the worker is in progress, and the flag says so
C24_NoOverlap ==
    /\ sched.inProgress <= 1
    /\ sched.currentlyRunning <=> sched.inProgress = 1

\* a tick that fires while the worker runs, or while the task is disabled,
\* starts no worker
C24_GuardedTick ==
    (sched'.ticks # sched.ticks /\ (sched.currentlyRunning \/ ~sched.enabled)) =>
        /\ sched'.started = sched.started
        /\ sched'.inProgress = sched.inProgress
        /\ sched'.currentlyRunning = sched.currentlyRunning

\* C24: a tick that fires while the worker of an earlier tick is running is
\* cancelled without starting the worker, so no two executions of the worker
\* are ever in progress; a tick that fires while the task is disabled starts
\* no worker either.
C24_SchedulerOverlapGuard == []C24_NoOverlap /\ [][C24_GuardedTick]_vars

\* a tick was cancelled while the worker ran, another was skipped while the
\* task was disabled, and one execution is in progress
C24_Witness ==
    /\ sched.cancelled >= 1 /\ sched.skipped >= 1 /\ sched.started >= 2
    /\ sched.inProgress = 1 /\ sched.currentlyRunning

\* ================================================== initialised registries
\* the registries of all workers have run init() earlier: every connection has
\* selected the application's database, which holds rooms added since
InitInitialised == RegistryStart(AppDbId) /\ AsideIdle

SpecInitialised == InitInitialised /\ [][Next]_vars

\* ---------------------------------------------------------------------- C25
\* the calls whose second round-trip reads the room they have just checked
ChecksThenReads == {"roomEmpty", "activateRoom", "deactivateRoom", "addClient",
                    "removeClientFromRoom"}

\* C25: in activateRoom, deactivateRoom, addClient, removeClientFromRoom and
\* roomEmpty the room read that follows the existence check is never null
\* (no call ends in the TypeError of dereferencing null), in every
\* interleaving of registry calls, another worker's init() flushing in between
\* included.
C25_NoMissingRoomDereferenced ==
    \A w \in Workers :
        (pc[w] = "done" /\ op[w].name \in ChecksThenReads /\ rawWrites = 0) =>
            res[w] # Rejected("TypeError")

\* ---------------------------------------------------------------------- C26
FlagOps == {"activateRoom", "deactivateRoom"}

\* the flag that call name sets
FlagOf(name) == name = "activateRoom"

\* a's activateRoom/deactivateRoom and b's addClient on one existing room have
\* both completed without error, and both began on the same stored room
FlagAndMembership(a, b) ==
    /\ a # b /\ pc[a] = "done" /\ pc[b] = "done"
    /\ op[a].name \in FlagOps /\ op[b].name = "addClient"
    /\ SameSlot(a, b)
    /\ res[a] = Undefined /\ res[b] = Undefined
    /\ snap[a] = snap[b] /\ IsRoom(snap[a])
    /\ rawWrites = 0

\* C26: activateRoom/deactivateRoom and addClient each read the whole room and
\* write the whole room back, so when A's flag call and B's addClient(c) on an
\* existing room overlap and both complete without error, the stored room is
\* one of: both changes; A's flag with the clients as they were (c erased); c
\* added with the flag as it was (the flag change reverted).
C26_WholeRoomWriteBack ==
    \A a, b \in Workers :
        FlagAndMembership(a, b) =>
            LET L == ClientsOf(snap[a])
                f0 == ActiveOf(snap[a])
                flag == FlagOf(op[a].name)
                c == op[b].client
            IN  Slot(a) \in { Some(Stored(L \o <<c>>, flag)),
                              Some(Stored(L, flag)),
                              Some(Stored(L \o <<c>>, f0)) }

\* both calls completed without error and c, absent before, is absent afterwards
C26_Witness ==
    \E a, b \in Workers :
        /\ FlagAndMembership(a, b)
        /\ op[b].client \notin Range(ClientsOf(snap[a]))
        /\ op[b].client \notin Range(ClientsOf(Slot(a)))
        /\ IsRoom(Slot(a))
        /\ ActiveOf(Slot(a)) = FlagOf(op[a].name)
        /\ ActiveOf(snap[a]) # FlagOf(op[a].name)

\* the symmetric outcome: both calls completed, c is stored and the flag
\* is the one from before A's call
C26_FlagReverted ==
    \E a, b \in Workers :
        /\ FlagAndMembership(a, b)
        /\ IsRoom(Slot(a))
        /\ op[b].client \in Range(ClientsOf(Slot(a)))
        /\ ActiveOf(snap[a]) # FlagOf(op[a].name)
        /\ ActiveOf(Slot(a)) = ActiveOf(snap[a])

\* ---------------------------------------------------------------------- C27
\* some field of the hash is not a stored room
Malformed(hash) == \E r \in DOMAIN hash : ~Parseable(hash[r])

\* a removeClientFromNamespace that met a malformed entry has returned false
\* and, while nobody else has written to the namespace since, the namespace
\* is as the call found it
C27_ReturnsFalse ==
    \A w \in Workers :
        (Done(w, "removeClientFromNamespace") /\ ~faulted[w]
            /\ Malformed(HashBefore(w))) =>
            /\ res[w] = Bool(FALSE)
            /\ ~raced[w]
            /\ (~touched[w] => HGetAll(op[w].db, op[w].ns) = snap[w])

\* the step that issues removeClientFromNamespace on a namespace with a
\* malformed entry ends the call and writes nothing
C27_NoWrite ==
    \A w \in Workers :
        (pc[w] = "idle" /\ op'[w].name = "removeClientFromNamespace"
            /\ Malformed(store[sel[w]][op'[w].ns])) =>
            /\ pc'[w] = "done"
            /\ store' = store

\* C27: if any room slot of namespace ns holds an unparseable value,
\* removeClientFromNamespace(ns, c) returns false and performs no store write,
\* so c stays in every well-formed room of ns that contained it.
C27_MalformedEntryBlocksRemoval == []C27_ReturnsFalse /\ [][C27_NoWrite]_vars

\* the call returned false on a namespace with one malformed slot and a
\* well-formed room that held c and still holds it
C27_Witness ==
    \E w \in Workers :
        /\ Done(w, "removeClientFromNamespace") /\ ~faulted[w]
        /\ res[w] = Bool(FALSE)
        /\ Malformed(HashBefore(w))
        /\ \E r \in DOMAIN HashBefore(w) :
            /\ Parseable(HashBefore(w)[r])
            /\ op[w].client \in Range(JSONparse(HashBefore(w)[r]).clients)
            /\ IsRoom(HGet(op[w].db, op[w].ns, r))
            /\ op[w].client \in Range(ClientsOf(HGet(op[w].db, op[w].ns, r)))

\* ---------------------------------------------------------------------- C28
\* how often c occurs in seq
Occurrences(seq, c) == Cardinality({i \in 1 .. Len(seq) : seq[i] = c})

\* the rooms of w's namespace that hold w's client now
StillHolding(w) ==
    {r \in DOMAIN store[op[w].db][op[w].ns] :
        op[w].client \in Range(ClientsOf(HGet(op[w].db, op[w].ns, r)))}

\* w's removeClientFromNamespace has returned, on a namespace whose rooms were
\* all well-formed and held the client at most once each
NamespaceSwept(w) ==
    /\ Done(w, "removeClientFromNamespace") /\ ~faulted[w] /\ rawWrites = 0
    /\ res[w] \in {Bool(TRUE), Bool(FALSE)}
    /\ AllRooms(HashBefore(w))
    /\ \A r \in DOMAIN HashBefore(w) :
            Occurrences(JSONparse(HashBefore(w)[r]).clients, op[w].client) <= 1

\* C28: removeClientFromNamespace(ns, c) works on the rooms read once at its
\* start: when it completes with nothing else writing to ns meanwhile and
\* every room held c at most once, no room of ns contains c; c can remain in
\* ns after the call has returned only in a room another worker wrote after
\* that initial read.
C28_SweepsRoomsReadAtStart ==
    \A w \in Workers :
        NamespaceSwept(w) =>
            /\ Clean(w) => StillHolding(w) = {}
            /\ \A r \in StillHolding(w) :
                /\ raced[w] \/ touched[w]
                /\ written[op[w].db][op[w].ns][r] # Null
                /\ op[w].client \in Range(written[op[w].db][op[w].ns][r][1].clients)

\* the call returned true, another worker's addClient(ns, r, c) ran during it,
\* and c is in a room of ns
C28_Witness ==
    \E a, b \in Workers :
        /\ a # b /\ NamespaceSwept(a) /\ res[a] = Bool(TRUE)
        /\ raced[a] /\ ~touched[a] /\ faults = 0
        /\ Done(b, "addClient") /\ op[b].db = op[a].db /\ op[b].ns = op[a].ns
        /\ op[b].client = op[a].client
        /\ StillHolding(a) # {}

\* the call ran alone on a namespace where rooms held c, and none holds it now
C28_SweptAlone ==
    \E w \in Workers :
        /\ NamespaceSwept(w) /\ Clean(w) /\ ~overlap[w] /\ res[w] = Bool(TRUE)
        /\ Cardinality({r \in DOMAIN HashBefore(w) :
                op[w].client \in Range(JSONparse(HashBefore(w)[r]).clients)}) >= 2
        /\ StillHolding(w) = {}

\* ---------------------------------------------------------------------- C29
\* an init() that waits for its flushdb has selected its database
C29_SelectedBeforeFlush ==
    \A w \in Workers :
        pc[w] = "init_flushdb" => (SelectOk(dbId[w]) /\ sel[w] = dbId[w])

\* the step that issues init() sends select and changes no keyspace; it goes
\* on to the flush only when the selection succeeded and ends the call with
\* false otherwise; the flush clears the selected database and no other
C29_InitSteps ==
    \A w \in Workers :
        /\ (pc[w] = "idle" /\ op'[w].name = "init") =>
                /\ store' = store
                /\ IF SelectOk(dbId[w]) /\ faults' = faults
                   THEN pc'[w] = "init_flushdb" /\ sel'[w] = dbId[w]
                   ELSE pc'[w] = "done" /\ res'[w] = Bool(FALSE) /\ sel'[w] = sel[w]
        /\ (pc[w] = "init_flushdb" /\ pc'[w] # pc[w]) =>
                store' \in {store, FlushDb(dbId[w])}

\* C29: init() issues the flush only after the keyspace selection has
\* succeeded: if select fails no flush is sent, so an init() with an invalid
\* selector returns false without clearing any keyspace, the connection's
\* default one included.
C29_FlushOnlyAfterSelect == []C29_SelectedBeforeFlush /\ [][C29_InitSteps]_vars

\* init() of a registry built with an out-of-range index has returned false;
\* its connection is on the default database, whose rooms are all still there
C29_Witness ==
    \E w \in Workers :
        /\ Done(w, "init") /\ op[w].db = BadDbId /\ dbId[w] = BadDbId
        /\ ~faulted[w] /\ faults = 0 /\ rawWrites = 0
        /\ res[w] = Bool(FALSE)
        /\ sel[w] = DefaultDb
        /\ store[DefaultDb] = SeedRich

\* ---------------------------------------------------------------------- C30
\* a's addClient(ns, r, c) has completed undisturbed, then b's
\* removeClientFromRoom(ns, r, c) began on the room a left and completed
\* undisturbed
AddThenRemove(a, b) ==
    /\ a # b /\ Done(a, "addClient") /\ Done(b, "removeClientFromRoom")
    /\ SameSlot(a, b) /\ op[a].client = op[b].client
    /\ ~faulted[a] /\ ~faulted[b] /\ ~raced[a] /\ ~raced[b] /\ ~touched[b]
    /\ rawWrites = 0
    /\ snap[a] = Null \/ IsRoom(snap[a])
    /\ snap[b] = Some(Stored(ClientsOf(snap[a]) \o <<op[a].client>>, ActiveOf(snap[a])))

\* addClient then removeClientFromRoom of the same client: true, the clients
\* as a multiset and the flag as before; the sequence as before when c was
\* absent, and else the first c gone and the appended c at the end
C30_RoundTrip ==
    \A a, b \in Workers :
        AddThenRemove(a, b) =>
            LET L == ClientsOf(snap[a])
                c == op[a].client
                after == ClientsOf(Slot(b))
            IN  /\ res[b] = Bool(TRUE)
                /\ IsRoom(Slot(b))
                /\ ActiveOf(Slot(b)) = ActiveOf(snap[a])
                /\ \A x \in Clients : Occurrences(after, x) = Occurrences(L, x)
                /\ c \notin Range(L) => after = L
                /\ c \in Range(L) =>
                        /\ after = RemoveFirst(L, c) \o <<c>>
                        /\ after[Len(after)] = c

\* what a completed, undisturbed call of w on one room adds to the number of
\* occurrences of x in the room
Delta(w, x) ==
    IF op[w].name = "addClient" /\ op[w].client = x THEN 1
    ELSE IF op[w].name = "removeClientFromRoom" /\ op[w].client = x
            /\ res[w] = Bool(TRUE) THEN -1
    ELSE 0

\* every undisturbed call on a room changes the number of occurrences of a
\* client by one up for its addClient, by one down for its
\* removeClientFromRoom that returned true, and not at all otherwise
C30_CountStep ==
    \A w \in Workers :
        (pc[w] = "done" /\ op[w].name \in Mutators /\ ~faulted[w] /\ Clean(w)
            /\ rawWrites = 0 /\ res[w].kind # "reject") =>
            \A x \in Clients :
                Occurrences(ClientsOf(Slot(w)), x)
                    = Occurrences(ClientsOf(snap[w]), x) + Delta(w, x)

\* C30: addClient followed by removeClientFromRoom with the same (ns, r, c)
\* and nothing in between returns true and restores the clients as a multiset
\* and the flag; it restores the exact sequence when c was absent before,
\* and when c was present the earlier occurrence is removed and the appended
\* one stays at the end. Each sequential call changes the number of
\* occurrences of c by +1 (addClient(c)), -1 (removeClientFromRoom(c) that
\* returned true) or 0, so over a sequential history the number is the
\* number of adds minus the number of successful removes.
C30_AddThenRemoveRestores == C30_RoundTrip /\ C30_CountStep

\* the pair ran on a room in which c was present and not last: the sequence
\* afterwards differs from the one before
C30_Witness ==
    \E a, b \in Workers :
        /\ AddThenRemove(a, b)
        /\ op[a].client \in Range(ClientsOf(snap[a]))
        /\ ClientsOf(Slot(b)) # ClientsOf(snap[a])
        /\ res[b] = Bool(TRUE)

\* the pair ran on a room without c: the sequence is the one before
C30_RestoredExactly ==
    \E a, b \in Workers :
        /\ AddThenRemove(a, b)
        /\ op[a].client \notin Range(ClientsOf(snap[a]))
        /\ ClientsOf(snap[a]) # <<>>
        /\ ClientsOf(Slot(b)) = ClientsOf(snap[a])

====
